---- MODULE Spec2Model ----
(***************************************************************************)
(* Combiner's ExecutableItem (spine_items/combiner/executable_item.py).    *)
(*                                                                         *)
(* The item lives in one thread (the "item thread").  _execute_forward     *)
(* blocks that thread in QEventLoop.exec_(); while it is blocked, the      *)
(* nested event loop delivers the events posted to the thread: the two     *)
(* slots connected to the worker's finished signal (queued connections,    *)
(* because the worker lives in the QThread) and a stop request, which      *)
(* runs stop_execution on the item thread.                                 *)
(*                                                                         *)
(* Qt's primitives are modelled by what their documentation says:          *)
(*   - a signal emitted in another thread posts one event per connection   *)
(*     to the receiver's thread, in connection order; a thread delivers    *)
(*     its posted events first in, first out;                              *)
(*   - QEventLoop.exit(c) makes exec_() return c; a later exit/quit        *)
(*     replaces the code as long as exec_() has not returned;              *)
(*   - QThread.quit() ends the thread's event loop once the slot it is     *)
(*     running (do_work) has returned; QThread.wait() blocks the caller    *)
(*     until the thread has ended;                                         *)
(*   - deleteLater() schedules the object's deletion; the model records    *)
(*     the request, the deallocation itself is outside the model.          *)
(* CombinerWorker is not part of the sources: do_work is modelled as a     *)
(* step that ends with some outcome and emits finished.                    *)
(***************************************************************************)
EXTENDS Integers, Sequences, FiniteSets, TLC

\* ---------------------------------------------------------------- bounds
\* Number of forward executions that start a worker.
MaxExec == 2
\* Longest resource list handed to a forward pass.
MaxRes == 2
\* Longest resource list handed to a backward pass.
MaxDown == 1

\* ------------------------------------------------------------- constants
None == 0
\* self._loop.exit(-1) in stop_execution
StopExitCode == -1

Ids == 1..MaxExec

\* A resource exposes url and type_.
Resources ==
    { [url |-> "sqlite:///a.sqlite", type_ |-> "database"],
      [url |-> "b.json", type_ |-> "file"] }

ResourceLists ==
    UNION { [1..n -> Resources] : n \in 0..MaxRes }

\* the lists a backward pass is given
DownstreamLists ==
    UNION { [1..n -> Resources] : n \in 0..MaxDown }

VARIABLES
    _resources_from_downstream, \* list stored by the last backward pass
    _worker,                    \* None or the id of the CombinerWorker
    _worker_thread,             \* None or the id of the QThread
    _loop,                      \* None or the id of the QEventLoop
    _merge_succeeded,           \* BOOLEAN
    pc,                         \* "idle" | "exec": item thread inside exec_()
    cont,                       \* what the item thread resumes after QThread.wait()
    loops,                      \* id -> state of the QEventLoop object
    workers,                    \* id -> state of the CombinerWorker's do_work
    threads,                    \* id -> state of the QThread
    postedEvents,               \* events posted to the item thread, FIFO
    scheduledDelete,            \* objects on which deleteLater() was called
    nextId,                     \* id of the next loop/worker/thread
    call,                       \* record of the current (or last) _execute_forward call
    handlerRan,                 \* ids of workers whose completion handler has run
    lastBackward,               \* record of the last _execute_backward call
    lastOp                      \* the operation of the item that ended last

vars == << _resources_from_downstream, _worker, _worker_thread, _loop,
           _merge_succeeded, pc, cont, loops, workers, threads, postedEvents,
           scheduledDelete, nextId, call, handlerRan, lastBackward, lastOp >>

fields == << _worker, _worker_thread, _loop, _merge_succeeded >>

\* ---------------------------------------------------------------- helpers
NoCont == [op |-> "none", id |-> None]

NoCall ==
    [ resources |-> << >>, downstream |-> << >>,
      pre |-> [fields |-> << None, None, None, FALSE >>, nextId |-> 1],
      created |-> 0, id |-> None, stopped |-> FALSE, stop_exit |-> FALSE, returned |-> FALSE,
      retval |-> FALSE, loop_retval |-> 0, log |-> << >> ]

NoBackward ==
    [ called |-> FALSE, arg |-> << >>, shared |-> FALSE, changed |-> FALSE,
      framed |-> TRUE, retval |-> FALSE ]

\* Whether the stored list is the caller's list object: resources.copy() makes
\* a new one.
StoresCallersList_no_copy == TRUE

StoresCallersList == FALSE

\* [r.url for r in resources if r.type_ == "database"]
_urls_from_resources_all(resources) ==
    [i \in 1..Len(resources) |-> resources[i].url]

_urls_from_resources_not(resources) ==
    LET sel == SelectSeq(resources, LAMBDA r : r.type_ # "database")
    IN  [i \in 1..Len(sel) |-> sel[i].url]

_urls_from_resources(resources) ==
    LET sel == SelectSeq(resources, LAMBDA r : r.type_ = "database")
    IN  [i \in 1..Len(sel) |-> sel[i].url]

\* The slots connected to worker.finished, in connection order.
Connections_reversed(k) ==
    << [slot |-> "quit", id |-> k],
       [slot |-> "_handle_worker_finished", id |-> k] >>

Connections_no_handler(k) ==
    << [slot |-> "quit", id |-> k] >>

Connections(k) ==
    << [slot |-> "_handle_worker_finished", id |-> k],
       [slot |-> "quit", id |-> k] >>

\* The value _handle_worker_finished stores in _merge_succeeded.
HandlerFlag_unchanged == _merge_succeeded

HandlerFlag == TRUE

\* The message of the branch that finds no URL: msg_warning, lines 88-93.
NoOpLog(from_urls) ==
    IF from_urls = << >>
    THEN << "warning: no input database" >>
    ELSE << "warning: no output database" >>

\* The message emitted after exec_(): msg_error and return, or msg_success.
ReturnLog_falls_through(loop_retval) ==
    IF loop_retval # 0
    THEN << "error: stopped", "success: finished" >>
    ELSE << "success: finished" >>

ReturnLog(loop_retval) ==
    IF loop_retval # 0
    THEN << "error: stopped" >>
    ELSE << "success: finished" >>

\* deleteLater() calls of _destroy_current_worker
DestroyDeletes ==
    scheduledDelete
        \cup (IF _loop # None THEN {<<"loop", _loop>>} ELSE {})
        \cup (IF _worker # None THEN {<<"worker", _worker>>} ELSE {})

\* self._worker_thread.quit()
QuitThread_forgotten == threads

QuitThread ==
    IF _worker_thread # None
    THEN [threads EXCEPT ![_worker_thread].quit = TRUE]
    ELSE threads

\* _destroy_current_worker up to self._worker_thread.wait()
_destroy_current_worker_keeps_worker ==
    /\ _loop' = None
    /\ _worker' = _worker
    /\ scheduledDelete' = DestroyDeletes
    /\ threads' = QuitThread

_destroy_current_worker ==
    /\ _loop' = None
    /\ _worker' = None
    /\ scheduledDelete' = DestroyDeletes
    /\ threads' = QuitThread

\* lines 95-103: new loop, worker and thread; the thread is started and the
\* item thread enters exec_().
EnterWait(k, c, ths) ==
    /\ _loop' = k
    /\ _worker' = k
    /\ _worker_thread' = k
    /\ loops' = [loops EXCEPT ![k] = [state |-> "running", exit |-> FALSE, code |-> 0]]
    /\ workers' = [workers EXCEPT          \* moveToThread, then do_work on started
                      ![k] = [state |-> "working", outcome |-> "none", thread |-> k]]
    /\ threads' = [ths EXCEPT ![k] = [state |-> "running", quit |-> FALSE]]
    /\ nextId' = nextId + 1
    /\ call' = [c EXCEPT !.created = @ + 1, !.id = k]
    /\ pc' = "exec"

\* ------------------------------------------------------------------- Init
Init ==
    /\ _resources_from_downstream = << >>
    /\ _worker = None
    /\ _worker_thread = None
    /\ _loop = None
    /\ _merge_succeeded = FALSE
    /\ pc = "idle"
    /\ cont = NoCont
    /\ loops = [k \in Ids |-> [state |-> "none", exit |-> FALSE, code |-> 0]]
    /\ workers = [k \in Ids |-> [state |-> "none", outcome |-> "none", thread |-> None]]
    /\ threads = [k \in Ids |-> [state |-> "none", quit |-> FALSE]]
    /\ postedEvents = << >>
    /\ scheduledDelete = {}
    /\ nextId = 1
    /\ call = NoCall
    /\ handlerRan = {}
    /\ lastBackward = NoBackward
    /\ lastOp = "init"

\* ---------------------------------------------------------------- actions
\* _execute_backward(resources)
_execute_backward(resources) ==
    /\ pc = "idle"
    /\ cont = NoCont
    /\ _resources_from_downstream' = resources
    /\ lastOp' = "backward"
    /\ call' = NoCall      \* the record of the previous forward call is dropped
    /\ UNCHANGED << _worker, _worker_thread, _loop, _merge_succeeded, pc, cont,
                    loops, workers, threads, postedEvents, scheduledDelete,
                    nextId, handlerRan >>
    /\ lastBackward' = [ called |-> TRUE, arg |-> resources,
                         shared |-> StoresCallersList, changed |-> FALSE,
                         framed |-> (fields' = fields), retval |-> TRUE ]

\* What one change of a list by its owner can make of it: an element appended
\* or the last one removed.
ListChanges(l) ==
    { Append(l, x) : x \in Resources }
        \cup (IF l = << >> THEN {} ELSE { SubSeq(l, 1, Len(l) - 1) })

\* The caller changes the list it handed to the last backward pass (between two
\* calls of the item: the caller runs on the item thread); the item sees the
\* change only if it stored that very list.
CallerChangesList(r) ==
    /\ pc = "idle"
    /\ cont = NoCont
    /\ lastBackward.called
    /\ lastBackward.shared \/ ~lastBackward.changed
    /\ lastBackward' = [lastBackward EXCEPT !.changed = TRUE]
    /\ _resources_from_downstream' =
            IF lastBackward.shared THEN r ELSE _resources_from_downstream
    /\ UNCHANGED << _worker, _worker_thread, _loop, _merge_succeeded, pc, cont, loops,
                    workers, threads, postedEvents, scheduledDelete, nextId, call,
                    handlerRan, lastOp >>

\* _execute_forward(resources), up to the return of the no-op branches or to
\* the entry of exec_().
_execute_forward(resources) ==
    /\ pc = "idle"
    /\ cont = NoCont
    /\ LET from_urls == _urls_from_resources(resources)
           to_urls == _urls_from_resources(_resources_from_downstream)
           c == [NoCall EXCEPT !.resources = resources,
                               !.downstream = _resources_from_downstream,
                               !.pre = [fields |-> fields, nextId |-> nextId]]
       IN  IF from_urls = << >> \/ to_urls = << >>
           THEN /\ call' = [c EXCEPT
                       !.returned = TRUE,
                       !.retval = TRUE,
                       !.log = @ \o NoOpLog(from_urls)]
                /\ lastOp' = "forward"
                /\ UNCHANGED << lastBackward, _resources_from_downstream, _worker, _worker_thread,
                                _loop, _merge_succeeded, pc, cont, loops, workers,
                                threads, postedEvents, scheduledDelete, nextId,
                                handlerRan >>
           ELSE /\ nextId <= MaxExec
                /\ lastOp' = "forward_started"
                /\ IF _worker_thread # None
                   THEN /\ _destroy_current_worker
                        /\ cont' = [op |-> "forward", id |-> None]
                        /\ call' = c
                        /\ UNCHANGED << _worker_thread, pc, loops, workers, nextId >>
                   ELSE /\ scheduledDelete' = DestroyDeletes
                        /\ EnterWait(nextId, c, threads)
                        /\ UNCHANGED cont
                /\ UNCHANGED << lastBackward, _resources_from_downstream, _merge_succeeded,
                                postedEvents, handlerRan >>

\* stop_execution joins the thread it holds: "if self._worker_thread:" quit(), wait()
StopWaits_never == FALSE

StopWaits == _worker_thread # None

\* stop_execution(), up to its return or to self._worker_thread.wait()
stop_execution_resets_flag ==
    /\ cont = NoCont
    /\ loops' = IF _loop # None /\ loops[_loop].state = "running"
                THEN [loops EXCEPT ![_loop].exit = TRUE, ![_loop].code = StopExitCode]
                ELSE loops
    /\ _loop' = None
    /\ scheduledDelete' = scheduledDelete
            \cup (IF _worker # None THEN {<<"worker", _worker>>} ELSE {})
    /\ _worker' = None
    /\ threads' = QuitThread
    /\ cont' = IF StopWaits THEN [op |-> "stop", id |-> None] ELSE NoCont
    /\ _worker_thread' = IF StopWaits THEN _worker_thread ELSE None
    /\ _merge_succeeded' = FALSE
    /\ call' = IF pc = "exec"
               THEN [call EXCEPT !.stopped = TRUE,
                                 !.stop_exit = @ \/ (_loop # None /\ loops[_loop].state = "running")]
               ELSE call
    /\ lastOp' = IF StopWaits THEN "stop_waiting"
                 ELSE IF _loop = None /\ _worker = None /\ _worker_thread = None
                      THEN "stop_idle"
                      ELSE "stop"
    /\ UNCHANGED << lastBackward, _resources_from_downstream, pc, workers, postedEvents, nextId,
                    handlerRan >>

stop_execution ==
    /\ cont = NoCont
    /\ loops' = IF _loop # None /\ loops[_loop].state = "running"
                THEN [loops EXCEPT ![_loop].exit = TRUE, ![_loop].code = StopExitCode]
                ELSE loops
    /\ _loop' = None
    /\ scheduledDelete' = scheduledDelete
            \cup (IF _worker # None THEN {<<"worker", _worker>>} ELSE {})
    /\ _worker' = None
    /\ threads' = QuitThread
    /\ cont' = IF StopWaits THEN [op |-> "stop", id |-> None] ELSE NoCont
    /\ _worker_thread' = IF StopWaits THEN _worker_thread ELSE None
    /\ call' = IF pc = "exec"
               THEN [call EXCEPT !.stopped = TRUE,
                                 !.stop_exit = @ \/ (_loop # None /\ loops[_loop].state = "running")]
               ELSE call
    /\ lastOp' = IF StopWaits THEN "stop_waiting"
                 ELSE IF _loop = None /\ _worker = None /\ _worker_thread = None
                      THEN "stop_idle"
                      ELSE "stop"
    /\ UNCHANGED << lastBackward, _resources_from_downstream, _merge_succeeded, pc, workers,
                    postedEvents, nextId, handlerRan >>

\* The worker's do_work ends (with some outcome) and emits finished: one event
\* per connection is posted to the item thread.
WorkerFinished(k, outcome) ==
    /\ workers[k].state = "working"
    /\ workers' = [workers EXCEPT ![k].state = "done", ![k].outcome = outcome]
    /\ postedEvents' = postedEvents \o
            SelectSeq(Connections(k),
                      LAMBDA e : e.slot = "quit" => loops[e.id].state = "running")
    /\ UNCHANGED << lastBackward, _resources_from_downstream, _worker, _worker_thread, _loop,
                    _merge_succeeded, pc, cont, loops, threads, scheduledDelete,
                    nextId, call, handlerRan, lastOp >>

\* The QThread's event loop ends: quit() was called and do_work has returned.
ThreadFinished(k) ==
    /\ threads[k].state = "running"
    /\ threads[k].quit
    /\ workers[k].state = "done"
    /\ threads' = [threads EXCEPT ![k].state = "finished"]
    /\ UNCHANGED << lastBackward, _resources_from_downstream, _worker, _worker_thread, _loop,
                    _merge_succeeded, pc, cont, loops, workers, postedEvents,
                    scheduledDelete, nextId, call, handlerRan, lastOp >>

\* self._worker_thread.wait() returns; the operation that called it goes on
\* to its end (stop_execution, _handle_worker_finished) or to exec_()
\* (_execute_forward).
WaitReturns ==
    /\ cont # NoCont
    /\ _worker_thread # None
    /\ threads[_worker_thread].state = "finished"
    /\ cont' = NoCont
    /\ CASE cont.op = "stop" ->
              /\ _worker_thread' = None
              /\ lastOp' = "stop"
              /\ UNCHANGED << _merge_succeeded, pc, loops, workers, threads, nextId,
                              call, handlerRan, _loop, _worker >>
         [] cont.op = "handler" ->
              /\ _worker_thread' = None
              /\ _merge_succeeded' = HandlerFlag
              /\ handlerRan' = handlerRan \cup {cont.id}
              /\ lastOp' = "handler"
              /\ UNCHANGED << pc, loops, workers, threads, nextId, call, _loop, _worker >>
         [] OTHER ->
              /\ EnterWait(nextId, call, threads)
              /\ lastOp' = "forward_started"
              /\ UNCHANGED << _merge_succeeded, handlerRan >>
    /\ UNCHANGED << lastBackward, _resources_from_downstream, postedEvents, scheduledDelete >>

\* The item thread delivers its next posted event.
\*   _handle_worker_finished: _destroy_current_worker(), then the flag;
\*   quit: QEventLoop.quit() of the loop the connection was made to.
DeliverEvent ==
    /\ cont = NoCont
    /\ postedEvents # << >>
    /\ postedEvents' = Tail(postedEvents)
    /\ LET e == Head(postedEvents)
       IN  IF e.slot = "_handle_worker_finished"
           THEN /\ _destroy_current_worker
                /\ IF _worker_thread # None
                   THEN /\ cont' = [op |-> "handler", id |-> e.id]
                        /\ lastOp' = "handler_waiting"
                        /\ UNCHANGED << _worker_thread, _merge_succeeded, handlerRan >>
                   ELSE /\ _merge_succeeded' = HandlerFlag
                        /\ handlerRan' = handlerRan \cup {e.id}
                        /\ lastOp' = "handler"
                        /\ UNCHANGED << _worker_thread, cont >>
                /\ UNCHANGED << loops >>
           ELSE /\ loops' = IF loops[e.id].state = "running"
                            THEN [loops EXCEPT ![e.id].exit = TRUE, ![e.id].code = 0]
                            ELSE loops
                /\ lastOp' = "quit"
                /\ UNCHANGED << _worker, _worker_thread, _loop, _merge_succeeded, cont,
                                threads, scheduledDelete, handlerRan >>
    /\ UNCHANGED << lastBackward, _resources_from_downstream, pc, workers, nextId, call >>

\* exec_() returns once the loop was told to exit; lines 103-111.  The loop
\* object dies with its last reference, and with it the events posted to it.
ExecReturns ==
    /\ pc = "exec"
    /\ cont = NoCont
    /\ loops[call.id].exit
    /\ LET loop_retval == loops[call.id].code
       IN  call' = [call EXCEPT
                       !.returned = TRUE,
                       !.loop_retval = loop_retval,
                       !.retval = IF loop_retval # 0 THEN FALSE ELSE _merge_succeeded,
                       !.log = @ \o ReturnLog(loop_retval)]
    /\ loops' = [loops EXCEPT ![call.id].state = "dead"]
    /\ postedEvents' = SelectSeq(postedEvents,
                                 LAMBDA e : ~(e.slot = "quit" /\ e.id = call.id))
    /\ pc' = "idle"
    /\ lastOp' = "forward"
    /\ UNCHANGED << lastBackward, _resources_from_downstream, _worker, _worker_thread, _loop,
                    _merge_succeeded, cont, workers, threads, scheduledDelete,
                    nextId, handlerRan >>

Next ==
    \/ \E r \in DownstreamLists : _execute_backward(r)
    \/ \E r \in ListChanges(_resources_from_downstream) : CallerChangesList(r)
    \/ \E r \in ResourceLists : _execute_forward(r)
    \/ stop_execution
    \/ \E k \in Ids, o \in {"succeeded", "failed"} : WorkerFinished(k, o)
    \/ \E k \in Ids : ThreadFinished(k)
    \/ WaitReturns
    \/ DeliverEvent
    \/ ExecReturns

Spec == Init /\ [][Next]_vars

\* The item thread runs whenever it can: inside exec_() it delivers the posted
\* events and returns once told to exit, and a wait() returns once the thread
\* has ended; a QThread told to quit ends once do_work has returned.  Nothing
\* makes do_work end: the merge is the worker's business.
FairSpec ==
    /\ Spec
    /\ WF_vars(DeliverEvent)
    /\ WF_vars(ExecReturns)
    /\ WF_vars(WaitReturns)
    /\ \A k \in Ids : WF_vars(ThreadFinished(k))

\* ----------------------------------------------------------------- claims
HasDatabase(resources) ==
    \E i \in 1..Len(resources) : resources[i].type_ = "database"

AllNone == _loop = None /\ _worker = None /\ _worker_thread = None

\* The forward call that ended last, seen right at its return.
JustReturned == lastOp = "forward" /\ call.returned

\* A call that reached exec_().
Waited == call.id # None

\* C1: a stop_execution invoked while _execute_forward is blocked in exec_()
\* (stop_execution finds the loop running and calls exit(-1) on it) makes the
\* call return False, however the stop interleaves with the worker's finished
\* signal.
C1_StopMakesForwardFail ==
    (call.returned /\ call.stop_exit) => (call.retval = FALSE)

\* C2: a forward call whose upstream or stored downstream resources hold no
\* "database" entry returns True and creates nothing: _worker, _worker_thread,
\* _loop and _merge_succeeded are what they were before the call.
C2_NoDatabaseIsNoOp ==
    (JustReturned /\ (~HasDatabase(call.resources) \/ ~HasDatabase(call.downstream)))
        => /\ call.retval = TRUE
           /\ call.created = 0
           /\ call.id = None
           /\ fields = call.pre.fields
           /\ nextId = call.pre.nextId

C2_Witness ==
    /\ JustReturned
    /\ HasDatabase(call.resources)
    /\ call.downstream # << >>
    /\ ~HasDatabase(call.downstream)
    /\ call.retval = TRUE

\* C3: a forward call with a "database" entry on both sides constructs and
\* starts exactly one worker, and does not return before that worker's
\* finished signal has fired unless stop_execution was invoked.
C3_OneWorkerPerCall ==
    (HasDatabase(call.resources) /\ HasDatabase(call.downstream))
        => /\ (pc = "exec" \/ call.returned) =>
                  /\ call.created = 1
                  /\ Waited
                  /\ nextId = call.pre.nextId + 1
                  /\ workers[call.id].state # "none"
           /\ (call.returned /\ Waited /\ ~call.stopped) => workers[call.id].state = "done"

C3_Witness ==
    /\ HasDatabase(call.resources)
    /\ HasDatabase(call.downstream)
    /\ call.returned
    /\ ~call.stopped
    /\ call.created = 1
    /\ workers[call.id].state = "done"

\* C4 as stated: when exec_() returns 0 the call returns the worker's outcome,
\* False for a failed merge and True for a succeeded one.
C4_ReturnsWorkerOutcome ==
    (call.returned /\ Waited /\ call.loop_retval = 0)
        => (call.retval = (workers[call.id].outcome = "succeeded"))

\* C4 amended: when exec_() returns 0 the call returns _merge_succeeded, which
\* the completion handler of the call's worker has set by then, and the value
\* is True whatever the outcome of the worker's merge.
C4_ReturnsHandlerFlag ==
    (call.returned /\ Waited /\ call.loop_retval = 0)
        => /\ call.retval = TRUE
           /\ call.id \in handlerRan

C4_Witness ==
    /\ call.returned
    /\ Waited
    /\ call.loop_retval = 0
    /\ workers[call.id].outcome = "failed"
    /\ call.retval = TRUE

\* C5: on the normal-completion path, when _execute_forward returns,
\* _merge_succeeded is True, _worker, _worker_thread and _loop are None and
\* the thread of the execution was told to quit and has ended.
C5_CleanedUpOnCompletion ==
    (JustReturned /\ Waited /\ call.loop_retval = 0)
        => /\ _merge_succeeded = TRUE
           /\ AllNone
           /\ threads[call.id].quit
           /\ threads[call.id].state = "finished"
           /\ <<"worker", call.id>> \in scheduledDelete

C5_Witness ==
    /\ JustReturned
    /\ Waited
    /\ call.loop_retval = 0
    /\ ~call.stopped
    /\ threads[call.id].state = "finished"

\* C6: when stop_execution returns, _loop, _worker and _worker_thread are None
\* and every thread the item started was told to quit and has ended.
C6_StopJoinsThread ==
    (lastOp \in {"stop", "stop_idle"})
        => /\ AllNone
           /\ cont = NoCont
           /\ \A k \in Ids : threads[k].state # "none" =>
                  (threads[k].quit /\ threads[k].state = "finished")

C6_Witness ==
    /\ lastOp = "stop"
    /\ pc = "exec"
    /\ call.stop_exit
    /\ threads[call.id].state = "finished"

\* C7: stop_execution called while _loop, _worker and _worker_thread are None
\* returns at once and changes none of _loop, _worker, _worker_thread,
\* _merge_succeeded and the stored downstream resources.
C7_StopIdleIsNoOp ==
    [][ (AllNone /\ cont = NoCont /\ lastOp' \in {"stop", "stop_idle", "stop_waiting"})
            => /\ lastOp' = "stop_idle"
               /\ cont' = NoCont
               /\ UNCHANGED << _loop, _worker, _worker_thread, _merge_succeeded,
                               _resources_from_downstream, loops, threads, workers,
                               postedEvents, scheduledDelete, pc >> ]_vars

C7_Witness ==
    /\ lastOp = "stop_idle"
    /\ pc = "idle"
    /\ call.returned
    /\ Waited
    /\ _merge_succeeded = TRUE

\* The terminal outcome of a call, read from its log message.
Outcome(c) ==
    IF c.log \in { << "warning: no input database" >>, << "warning: no output database" >> }
    THEN "NoOp"
    ELSE IF c.log = << "error: stopped" >> THEN "Cancelled"
    ELSE IF c.log = << "success: finished" >> THEN "Succeeded"
    ELSE "none"

\* C8: every forward call ends as NoOp, Succeeded or Cancelled; NoOp and
\* Succeeded return True, and a call returns False only if stop_execution was
\* invoked during its wait.
C8_CancelOnlyFailure ==
    call.returned
        => /\ Outcome(call) \in {"NoOp", "Succeeded", "Cancelled"}
           /\ Outcome(call) \in {"NoOp", "Succeeded"} => call.retval = TRUE
           /\ call.retval = FALSE => (call.stopped /\ Outcome(call) = "Cancelled")

C8_Witness ==
    /\ call.returned
    /\ call.retval = FALSE
    /\ call.stopped
    /\ Outcome(call) = "Cancelled"

\* C9: whenever the loop of a forward call was told to exit with code 0, the
\* completion handler of that call's worker has already run and set the flag,
\* although by then _loop no longer refers to the loop.
C9_HandlerBeforeUnblock ==
    /\ (pc = "exec" /\ loops[call.id].exit /\ loops[call.id].code = 0)
           => (call.id \in handlerRan /\ _merge_succeeded = TRUE /\ _loop = None)
    /\ (call.returned /\ Waited /\ call.loop_retval = 0)
           => call.id \in handlerRan

C9_Witness ==
    /\ pc = "exec"
    /\ loops[call.id].exit
    /\ loops[call.id].code = 0
    /\ _loop = None
    /\ ~call.stopped

\* C10 as stated: a forward call that started a worker returns once the worker
\* has signalled completion or stop_execution was requested, also when the
\* worker's merge has not ended.
C10_ReturnsOnFinishOrStop ==
    (pc = "exec" /\ (workers[call.id].state = "done" \/ call.stopped)) ~> (pc = "idle")

\* C10 amended: a forward call that started a worker returns once the worker's
\* do_work has ended and signalled completion, stopped or not; a stop request
\* alone does not end the call, since stop_execution waits for the thread.
C10_ReturnsOnceWorkerEnded ==
    (pc = "exec" /\ workers[call.id].state = "done") ~> (pc = "idle")

C10_Witness ==
    /\ pc = "idle"
    /\ call.returned
    /\ call.stop_exit
    /\ call.retval = FALSE
    /\ workers[call.id].state = "done"

LiveThreads == { k \in Ids : threads[k].state = "running" }

LiveWorkers == { k \in Ids : workers[k].state = "working" }

\* C11: at any time the item has at most one running thread and at most one
\* working worker, every worker was moved to one thread (its own), and while
\* a forward call waits, the objects of every earlier execution are torn
\* down: their threads were told to quit and have ended.
C11_OneThreadOneWorker ==
    /\ Cardinality(LiveThreads) <= 1
    /\ Cardinality(LiveWorkers) <= 1
    /\ \A k \in Ids : workers[k].state # "none" =>
           (workers[k].thread = k /\ threads[k].state # "none")
    /\ \A k \in LiveThreads \cup LiveWorkers : call.id = k
    /\ pc = "exec" =>
           \A k \in Ids : (k < call.id) =>
               (threads[k].quit /\ threads[k].state = "finished"
                                /\ workers[k].state = "done")

C11_Witness ==
    /\ pc = "exec"
    /\ call.id = 2
    /\ threads[1].state = "finished"
    /\ threads[2].state = "running"
    /\ workers[2].state = "working"
    /\ _worker_thread = 2

\* C12: a forward call emits no message before its end and exactly one at its
\* end: a warning when it starts no worker, the error when exec_() returns a
\* nonzero code, the success message when exec_() returns 0.
C12_OneLogPerCall ==
    /\ ~call.returned => call.log = << >>
    /\ call.returned =>
          /\ Len(call.log) = 1
          /\ ~Waited => call.log[1] \in { "warning: no input database",
                                          "warning: no output database" }
          /\ (Waited /\ call.loop_retval # 0) => call.log[1] = "error: stopped"
          /\ (Waited /\ call.loop_retval = 0) => call.log[1] = "success: finished"

C12_Witness ==
    /\ call.returned
    /\ Waited
    /\ call.loop_retval # 0
    /\ call.log = << "error: stopped" >>

\* C13: _execute_backward returns True, stores the content of its argument
\* and leaves _worker, _worker_thread, _loop and _merge_succeeded as they
\* were; the stored list stays what the last backward pass was given, also
\* after the caller changed its own list, and it is the list a forward call
\* reads.
C13_BackwardStoresCopy ==
    /\ lastBackward.called =>
          /\ lastBackward.retval = TRUE
          /\ _resources_from_downstream = lastBackward.arg
    /\ lastBackward.framed
    /\ (pc = "exec" \/ call.returned) => call.downstream = lastBackward.arg

C13_Witness ==
    /\ lastBackward.changed
    /\ lastBackward.arg # << >>
    /\ call.returned
    /\ Waited
    /\ call.downstream = lastBackward.arg

\* C14: between operations (no operation is blocked in QThread.wait()), the
\* fields _worker, _worker_thread and _loop are all None whenever no
\* _execute_forward call is in progress; they are non-None only together, as
\* the objects of the call in progress, and only as long as neither a
\* completion handler nor stop_execution has run since that call started its
\* worker.
C14_FieldsNoneOutsideCall ==
    cont = NoCont =>
        /\ pc = "idle" => AllNone
        /\ \/ AllNone
           \/ /\ call.id # None
              /\ _loop = call.id
              /\ _worker = call.id
              /\ _worker_thread = call.id
        /\ ~AllNone =>
              /\ pc = "exec"
              /\ lastOp = "forward_started"
              /\ ~call.stopped
              /\ call.id \notin handlerRan
        /\ (call.returned /\ Waited) =>
              (call.stopped \/ handlerRan # {})

\* A call that started a worker has returned after a stop, and the fields are
\* None again.
C14_Witness ==
    /\ JustReturned
    /\ Waited
    /\ call.stopped
    /\ call.pre.nextId > 1
    /\ AllNone

\* An _execute_forward call begins in this step (and not a change of the
\* caller's list after a call that returned).
ForwardBegins ==
    /\ pc = "idle"
    /\ cont = NoCont
    /\ lastOp' \in {"forward", "forward_started"}
    /\ lastBackward' = lastBackward

\* C15: _merge_succeeded starts False and never goes back to False; only the
\* completion handler changes it, to True, and every run of the handler
\* leaves it True; _execute_forward, _execute_backward and stop_execution
\* leave it as it is, so every forward call that begins after a completion
\* handler has run begins with the flag True.
C15_FlagIsMonotonic ==
    /\ ~_merge_succeeded
    /\ [][ /\ _merge_succeeded => _merge_succeeded'
           /\ _merge_succeeded' # _merge_succeeded => lastOp' = "handler"
           /\ lastOp' \in {"backward", "forward", "forward_started",
                            "stop", "stop_idle", "stop_waiting"}
                 => _merge_succeeded' = _merge_succeeded
           /\ handlerRan' # handlerRan => _merge_succeeded'
           /\ (ForwardBegins /\ handlerRan # {}) =>
                 (_merge_succeeded /\ call'.pre.fields[4] = TRUE)
        ]_vars

\* A second worker has been started by a call that found the flag True, set
\* by the completion handler of the first worker.
C15_Witness ==
    /\ lastOp = "forward_started"
    /\ call.pre.nextId = 2
    /\ call.pre.fields[4] = TRUE
    /\ 1 \in handlerRan
    /\ _merge_succeeded

====
